---- MODULE Spec2Model ----
(***************************************************************************)
(* Model of the evalmode remote-execution pair:                            *)
(*   app.py           the Executor, a Flask handler for POST /exec that is *)
(*                    run on one thread per request (threaded=True);       *)
(*   local_client.py  the Bundler and the Dispatcher, the decorator        *)
(*                    remote_if_enabled and its wrapper.                   *)
(***************************************************************************)
EXTENDS Integers, Sequences, FiniteSets, TLC

(***************************************************************************)
(* Bounds.                                                                 *)
(***************************************************************************)
\* number of /exec requests the Executor handles in one behaviour of
\* SpecExec and SpecSeq, each on a thread of its own
MaxCalls == 2

Calls == 1..MaxCalls

\* number of helpers registered with remote_func in one behaviour
MaxExports == 1
MaxBundle == 2

(***************************************************************************)
(* Python values, and the JSON conversions of the wire.                    *)
(* A value is a type tag and a payload, the payload always a sequence of   *)
(* numbers: <<>> for None, <<n>> for an int or a str, the elements for a   *)
(* list, a tuple or a set.                                                 *)
(***************************************************************************)
PyNone == [t |-> "none", v |-> <<>>]
PyInt(n) == [t |-> "int", v |-> <<n>>]
PyStr(n) == [t |-> "str", v |-> <<n>>]
PyList(s) == [t |-> "list", v |-> s]
PyTuple(s) == [t |-> "tuple", v |-> s]
PySet(s) == [t |-> "set", v |-> s]

\* the JSON text of nothing (a field that is not in a body)
JsonNull == [j |-> "null", v |-> <<>>]

\* json.dumps raises TypeError for what it cannot encode (a set)
JsonSerializable(x) == x.t \in {"none", "int", "str", "list", "tuple"}

\* the encoder writes a tuple as it writes a list: a JSON array
json_dumps(x) ==
    [j |-> CASE x.t = "none" -> "null"
             [] x.t = "int" -> "num"
             [] x.t = "str" -> "str"
             [] x.t \in {"list", "tuple"} -> "arr",
     v |-> x.v]

\* the decoder reads every JSON array as a list
json_loads(d) ==
    [t |-> CASE d.j = "null" -> "none"
             [] d.j = "num" -> "int"
             [] d.j = "str" -> "str"
             [] d.j = "arr" -> "list",
     v |-> d.v]

\* positional arguments: the args tuple goes out as an array of encoded values
dumps_args(args) == [i \in DOMAIN args |-> json_dumps(args[i])]
loads_args(jargs) == [i \in DOMAIN jargs |-> json_loads(jargs[i])]
\* keyword arguments: an object, key by key
dumps_kwargs(kw) == [k \in DOMAIN kw |-> json_dumps(kw[k])]
loads_kwargs(jkw) == [k \in DOMAIN jkw |-> json_loads(jkw[k])]

ArgsSerializable(args, kw) ==
    /\ \A i \in DOMAIN args : JsonSerializable(args[i])
    /\ \A k \in DOMAIN kw : JsonSerializable(kw[k])

NoKwargs == [k \in {} |-> PyNone]

(***************************************************************************)
(* Exceptions.  app.py catches with `except Exception`: SystemExit and     *)
(* KeyboardInterrupt derive from BaseException only and are not caught.    *)
(***************************************************************************)
NoExc == [cls |-> "none", msg |-> ""]
Exc(cls, msg) == [cls |-> cls, msg |-> msg]
IsException(e) == e.cls \notin {"none", "SystemExit", "KeyboardInterrupt"}

(***************************************************************************)
(* Source text.  A code string is a sequence of lines; the model keeps of  *)
(* a line what the programs read of it:                                    *)
(*   "deco"   a line whose first non-blank character is "@", naming n      *)
(*   "cont"   a further line of a decorator call written on several lines  *)
(*   "def"    the definition of the function n (its body is Body of n)     *)
(*   "print"  a top-level statement that prints the text n                 *)
(*   "raise"  a top-level statement that raises RuntimeError(n)            *)
(***************************************************************************)
Line(k, n) == [k |-> k, n |-> n]

\* compile() of the code string: a "cont" line outside its decorator call
\* is not a statement
Compiles(code) == \A i \in DOMAIN code : code[i].k # "cont"

(***************************************************************************)
(* The functions of the callers' modules (myscript.py defines hello_world  *)
(* and test; the others stand for what else a caller may decorate).        *)
(* Op is one step of a running body.                                       *)
(***************************************************************************)
Op(op, tok, val, exc) == [op |-> op, tok |-> tok, val |-> val, exc |-> exc]
OpPrint(tok) == Op("print", tok, PyNone, NoExc)
\* a call of the helper named tok: looked up in the globals of the body
OpUse(tok) == Op("use", tok, PyNone, NoExc)
OpReturn(val) == Op("return", "", val, NoExc)
OpRaise(e) == Op("raise", "", PyNone, e)
\* global tok; tok = globals().get(tok, 0) + 1; return tok
OpBump(tok) == Op("bump", tok, PyNone, NoExc)

FuncNames ==
    {"hello", "test", "echo", "pair", "boom", "quit", "mkset", "multi", "mute"}

Params(f) == IF f = "echo" THEN <<"x">> ELSE <<>>

\* f(*args, **kwargs) binds its parameters or raises TypeError
Binds(f, args, kw) ==
    /\ Len(args) <= Len(Params(f))
    /\ DOMAIN kw = {Params(f)[i] : i \in (Len(args) + 1)..Len(Params(f))}

\* the value bound to the one parameter of echo
ArgX(args, kw) == IF Len(args) >= 1 THEN args[1] ELSE kw["x"]

Body(f, args, kw) ==
    CASE f = "hello" -> <<OpPrint("a"), OpReturn(PyInt(1))>>
      [] f = "test"  -> <<OpPrint("b"), OpUse("hello"), OpReturn(PyInt(2))>>
      [] f = "echo"  -> <<OpReturn(ArgX(args, kw))>>
      [] f = "pair"  -> <<OpReturn(PyTuple(<<1, 2>>))>>
      [] f = "boom"  -> <<OpPrint("b"), OpRaise(Exc("ValueError", "boom"))>>
      [] f = "quit"  -> <<OpPrint("a"), OpRaise(Exc("SystemExit", "1"))>>
      [] f = "mkset" -> <<OpReturn(PySet(<<1>>))>>
      [] f = "multi" -> <<OpReturn(PyInt(3))>>
      [] f = "mute"  -> <<OpRaise(Exc("ValueError", ""))>>
      [] f = "bump"  -> <<OpBump("n")>>

\* what the helper named f prints when a body calls it
HelperPrints(f) == IF f = "hello" THEN <<"a">> ELSE <<>>

(***************************************************************************)
(* The request and the response of POST /exec.                             *)
(* `fields` is the set of the keys of a body that is a JSON object; a key   *)
(* that is not in it holds a default the programs never read.              *)
(***************************************************************************)
Request(present, code, func_name, jargs, jkw) ==
    [present |-> present, code |-> code, func_name |-> func_name,
     args |-> jargs, kwargs |-> jkw]

AllFields == {"code", "func_name", "args", "kwargs"}

NoRequest == Request({}, <<>>, "", <<>>, NoKwargs)

\* form is what the body text is: "object" a JSON object, "array" JSON that
\* is not an object, "text" not JSON at all (text then holds the raw body)
Response(code, form, text, fields, status, result, error, traceback, out) ==
    [code |-> code, form |-> form, text |-> text,
     body |-> [fields |-> fields, status |-> status, result |-> result,
               error |-> error, traceback |-> traceback, stdout |-> out]]

NoResponse == Response(0, "none", "", {}, "", JsonNull, "", "", <<>>)

\* jsonify({"status": "ok", "result": ..., "stdout": ...}), status 200
SuccessResponse(result, out) ==
    Response(200, "object", "", {"status", "result", "stdout"}, "ok",
             json_dumps(result), "", "", out)

\* the same answer without the text captured so far
FailureResponseNoOutput(e, out) ==
    Response(500, "object", "", {"status", "error", "traceback", "stdout"},
             "error", JsonNull, e.msg, "Traceback", <<>>)

\* jsonify({"status": "error", "error": str(exc), "traceback": tb,
\*          "stdout": ...}), 500
FailureResponse(e, out) ==
    Response(500, "object", "", {"status", "error", "traceback", "stdout"},
             "error", JsonNull, e.msg, "Traceback", out)

(***************************************************************************)
(* State.                                                                  *)
(***************************************************************************)
VARIABLES
    \* ---- the Executor process (app.py) ----
    sys_stdout,   \* the process-wide sys.stdout: 0 is the stream the process
                  \* started with, c > 0 the StringIO of call c
    pc,           \* pc[c]: where the handler of call c stands
    req,          \* req[c]: the decoded request body (payload)
    stdout_buf,   \* stdout_buf[c]: the text in the StringIO of call c
    env,          \* env[c]: the names bound in the dictionary env of call c
    old_target,   \* old_target[c]: what redirect_stdout saved on entry
    exc,          \* exc[c]: the exception in flight in call c
    result,       \* result[c]: the value the entry point returned
    response,     \* response[c]: the response the handler returned
    ip,           \* ip[c]: the next line of the bundle, then the next step
                  \* of the entry point's body
    written       \* written[c]: the text the code of call c has printed
                  \* (history, for stating what a call's own output is)

VARIABLES
    \* ---- the caller's process (local_client.py) ----
    environ,        \* os.environ["USE_REMOTE_EXEC"], "unset" when not set
    REMOTE_EXPORTS, \* the registration list of remote_func
    wrapper,        \* the closure of the decorated function: func, full_code,
                    \* print_stdout, print_traceback (and, as history,
                    \* whether the switch was on when it was built)
    cpc,            \* where the running wrapper call stands
    cargs, ckwargs, \* its *args and **kwargs
    path,           \* the branch it took: "local" or "remote"
    callEnv,        \* history: the value of environ when it began
    funcCalls,      \* history: the invocations of func it made
    posted,         \* history: the requests it handed to requests.post
    wire,           \* the request on its way to the remote URL
    served,         \* history: who answered, "executor" or "other", or the
                    \* error requests.post raised in place of an answer
    resp,           \* the response requests.post returned
    outcome,        \* how the wrapper call ended: a value or an error
    console         \* what the wrapper itself printed during the call

execVars == <<sys_stdout, pc, req, stdout_buf, env, old_target, exc, result,
              response, ip, written>>

clientVars == <<environ, REMOTE_EXPORTS, wrapper, cpc, cargs, ckwargs, path,
                callEnv, funcCalls, posted, wire, served, resp, outcome,
                console>>

vars == <<execVars, clientVars>>

(***************************************************************************)
(* The Executor: exec_code, one action per step of the handler that other  *)
(* threads can observe or disturb.                                         *)
(***************************************************************************)
ExecInit ==
    /\ sys_stdout = 0
    /\ pc = [c \in Calls |-> "idle"]
    /\ req = [c \in Calls |-> NoRequest]
    /\ stdout_buf = [c \in Calls |-> <<>>]
    /\ env = [c \in Calls |-> {}]
    /\ old_target = [c \in Calls |-> 0]
    /\ exc = [c \in Calls |-> NoExc]
    /\ result = [c \in Calls |-> PyNone]
    /\ response = [c \in Calls |-> NoResponse]
    /\ ip = [c \in Calls |-> 1]
    /\ written = [c \in Calls |-> <<>>]

\* the KeyError of payload["code"] / payload["func_name"]
MissingField(p) ==
    IF "code" \notin p.present THEN Exc("KeyError", "code")
    ELSE IF "func_name" \notin p.present THEN Exc("KeyError", "func_name")
    ELSE NoExc

\* payload.get("args", []) and payload.get("kwargs", {})
PayloadArgs(p) == IF "args" \in p.present THEN loads_args(p.args) ELSE <<>>
PayloadKwargs(p) ==
    IF "kwargs" \in p.present THEN loads_kwargs(p.kwargs) ELSE NoKwargs

\* a handler that keeps the names earlier requests bound
SharedEnv(envs, c) == [envs EXCEPT ![c] = UNION {envs[d] : d \in Calls}]

\* line 62: env = {}
FreshEnv(envs, c) == [envs EXCEPT ![c] = {}]

\* lines 50-62: the buffer, the payload and its fields, the empty env
Receive(c, p) ==
    /\ pc[c] = "idle"
    /\ req' = [req EXCEPT ![c] = p]
    /\ stdout_buf' = [stdout_buf EXCEPT ![c] = <<>>]
    /\ env' = FreshEnv(env, c)
    /\ exc' = [exc EXCEPT ![c] = MissingField(p)]
    /\ pc' = [pc EXCEPT ![c] = IF MissingField(p) = NoExc THEN "enter"
                                ELSE "except"]
    /\ UNCHANGED <<sys_stdout, old_target, result, response, ip, written>>

\* line 63, redirect_stdout.__enter__: save sys.stdout, point it at the buffer
Enter(c) ==
    /\ pc[c] = "enter"
    /\ old_target' = [old_target EXCEPT ![c] = sys_stdout]
    /\ sys_stdout' = c
    /\ ip' = [ip EXCEPT ![c] = 1]
    /\ pc' = [pc EXCEPT ![c] = "exec"]
    /\ UNCHANGED <<req, stdout_buf, env, exc, result, response, written>>

\* print(...): the text goes to whatever sys.stdout is at this moment
WriteTo(target, buf, text) ==
    IF target \in Calls
    THEN [buf EXCEPT ![target] = buf[target] \o text]
    ELSE buf

Raise(c, e) ==
    /\ exc' = [exc EXCEPT ![c] = e]
    /\ pc' = [pc EXCEPT ![c] = "exit"]

\* a definition executed by exec(code, env, env) binds its name in the
\* dictionary of the call, and nowhere else
BindNameShared(envs, c, n) == [d \in Calls |-> envs[d] \cup {n}]

BindName(envs, c, n) == [envs EXCEPT ![c] = envs[c] \cup {n}]

\* line 64, exec(code, env, env): compile, then one top-level statement a step
ExecStep(c) ==
    /\ pc[c] = "exec"
    /\ ~Compiles(req[c].code) \/ ip[c] <= Len(req[c].code)
    /\ LET code == req[c].code
           i == ip[c]
       IN IF ~Compiles(code)
          THEN /\ Raise(c, Exc("SyntaxError", "invalid syntax"))
               /\ UNCHANGED <<stdout_buf, env, ip, written>>
          ELSE CASE code[i].k = "def" ->
                      /\ env' = BindName(env, c, code[i].n)
                      /\ ip' = [ip EXCEPT ![c] = i + 1]
                      /\ UNCHANGED <<stdout_buf, exc, pc, written>>
                 [] code[i].k = "deco" ->
                      \* the decorator expression is a name of the globals
                      IF code[i].n \in env[c]
                      THEN /\ ip' = [ip EXCEPT ![c] = i + 1]
                           /\ UNCHANGED <<stdout_buf, env, exc, pc, written>>
                      ELSE /\ Raise(c, Exc("NameError", code[i].n))
                           /\ UNCHANGED <<stdout_buf, env, ip, written>>
                 [] code[i].k = "print" ->
                      /\ stdout_buf' = WriteTo(sys_stdout, stdout_buf,
                                               <<code[i].n>>)
                      /\ written' = [written EXCEPT
                                        ![c] = written[c] \o <<code[i].n>>]
                      /\ ip' = [ip EXCEPT ![c] = i + 1]
                      /\ UNCHANGED <<env, exc, pc>>
                 [] code[i].k = "raise" ->
                      /\ Raise(c, Exc("RuntimeError", code[i].n))
                      /\ UNCHANGED <<stdout_buf, env, ip, written>>
    /\ UNCHANGED <<sys_stdout, req, old_target, result, response>>

\* line 65, once exec has run the last statement: env[func_name] and the
\* binding of (*args, **kwargs)
\* a lookup whose error does not say which name was missing
LookupExcUnnamed(names, p) ==
    IF p.func_name \notin names THEN Exc("KeyError", "")
    ELSE IF ~Binds(p.func_name, PayloadArgs(p), PayloadKwargs(p))
    THEN Exc("TypeError", "arguments")
    ELSE NoExc

LookupExc(names, p) ==
    IF p.func_name \notin names THEN Exc("KeyError", p.func_name)
    ELSE IF ~Binds(p.func_name, PayloadArgs(p), PayloadKwargs(p))
    THEN Exc("TypeError", "arguments")
    ELSE NoExc

Lookup(c) ==
    /\ pc[c] = "exec"
    /\ Compiles(req[c].code)
    /\ ip[c] > Len(req[c].code)
    /\ IF LookupExc(env[c], req[c]) = NoExc
       THEN /\ pc' = [pc EXCEPT ![c] = "call"]
            /\ ip' = [ip EXCEPT ![c] = 1]
            /\ UNCHANGED exc
       ELSE /\ Raise(c, LookupExc(env[c], req[c]))
            /\ UNCHANGED ip
    /\ UNCHANGED <<sys_stdout, req, stdout_buf, env, old_target, result,
                   response, written>>

\* line 65, the body of the entry point, one step at a time
CallStep(c) ==
    /\ pc[c] = "call"
    /\ LET p == req[c]
           o == Body(p.func_name, PayloadArgs(p), PayloadKwargs(p))[ip[c]]
       IN CASE o.op = "print" ->
                 /\ stdout_buf' = WriteTo(sys_stdout, stdout_buf, <<o.tok>>)
                 /\ written' = [written EXCEPT ![c] = written[c] \o <<o.tok>>]
                 /\ ip' = [ip EXCEPT ![c] = ip[c] + 1]
                 /\ UNCHANGED <<exc, pc, result, env>>
            [] o.op = "use" ->
                 IF o.tok \in env[c]
                 THEN /\ stdout_buf' = WriteTo(sys_stdout, stdout_buf,
                                               HelperPrints(o.tok))
                      /\ written' = [written EXCEPT
                                        ![c] = written[c] \o HelperPrints(o.tok)]
                      /\ ip' = [ip EXCEPT ![c] = ip[c] + 1]
                      /\ UNCHANGED <<exc, pc, result, env>>
                 ELSE /\ Raise(c, Exc("NameError", o.tok))
                      /\ UNCHANGED <<stdout_buf, written, ip, result, env>>
            [] o.op = "return" ->
                 /\ result' = [result EXCEPT ![c] = o.val]
                 /\ pc' = [pc EXCEPT ![c] = "exit"]
                 /\ UNCHANGED <<stdout_buf, written, ip, exc, env>>
            [] o.op = "raise" ->
                 /\ Raise(c, o.exc)
                 /\ UNCHANGED <<stdout_buf, written, ip, result, env>>
            [] o.op = "bump" ->
                 /\ result' = [result EXCEPT
                                  ![c] = IF o.tok \in env[c] THEN PyInt(2)
                                         ELSE PyInt(1)]
                 /\ env' = [env EXCEPT ![c] = env[c] \cup {o.tok}]
                 /\ pc' = [pc EXCEPT ![c] = "exit"]
                 /\ UNCHANGED <<stdout_buf, written, ip, exc>>
    /\ UNCHANGED <<sys_stdout, req, old_target, response>>

\* the end of the with block, redirect_stdout.__exit__: sys.stdout becomes
\* what __enter__ saved; then the handler goes on, the except clause takes
\* an Exception, and anything else leaves exec_code
Exit(c) ==
    /\ pc[c] = "exit"
    /\ sys_stdout' = old_target[c]
    /\ pc' = [pc EXCEPT ![c] = IF exc[c] = NoExc THEN "respond"
                                ELSE IF IsException(exc[c]) THEN "except"
                                ELSE "escaped"]
    /\ UNCHANGED <<req, stdout_buf, env, old_target, exc, result, response,
                   ip, written>>

\* lines 69-73: jsonify raises TypeError, inside the try, for a result it
\* cannot encode
Respond(c) ==
    /\ pc[c] = "respond"
    /\ IF JsonSerializable(result[c])
       THEN /\ response' = [response EXCEPT
                               ![c] = SuccessResponse(result[c], stdout_buf[c])]
            /\ pc' = [pc EXCEPT ![c] = "done"]
            /\ UNCHANGED exc
       ELSE /\ exc' = [exc EXCEPT ![c] = Exc("TypeError", "not serializable")]
            /\ pc' = [pc EXCEPT ![c] = "except"]
            /\ UNCHANGED response
    /\ UNCHANGED <<sys_stdout, req, stdout_buf, env, old_target, result, ip,
                   written>>

\* lines 75-83
Except(c) ==
    /\ pc[c] = "except"
    /\ response' = [response EXCEPT
                       ![c] = FailureResponse(exc[c], stdout_buf[c])]
    /\ pc' = [pc EXCEPT ![c] = "done"]
    /\ UNCHANGED <<sys_stdout, req, stdout_buf, env, old_target, exc, result,
                   ip, written>>

(***************************************************************************)
(* The requests the Executor is sent in SpecExec and SpecSeq.              *)
(***************************************************************************)
Def(f) == Line("def", f)

CallOf(code, f) == Request(AllFields, code, f, <<>>, NoKwargs)

ExecRequests ==
    { CallOf(<<Def("hello")>>, "hello"),
      CallOf(<<Line("print", "b"), Def("hello"), Def("test")>>, "test"),
      CallOf(<<Def("test")>>, "test"),
      CallOf(<<Def("boom")>>, "boom"),
      CallOf(<<Def("quit")>>, "quit"),
      CallOf(<<Def("mkset")>>, "mkset"),
      CallOf(<<Def("hello")>>, "test"),
      CallOf(<<Line("print", "b"), Def("hello")>>, "test"),
      CallOf(<<Def("mute")>>, "mute"),
      CallOf(<<Def("bump")>>, "bump"),
      CallOf(<<Line("print", "a"), Line("raise", "stop")>>, "hello"),
      CallOf(<<Line("cont", ""), Def("hello")>>, "hello"),
      Request(AllFields, <<Def("hello")>>, "hello", <<json_dumps(PyInt(1))>>,
              NoKwargs),
      Request({"func_name"}, <<>>, "hello", <<>>, NoKwargs) }

\* the requests of the concurrent runs: those that print or define, which
\* is what one call can see of another
ConcurrentRequests ==
    { CallOf(<<Def("hello")>>, "hello"),
      CallOf(<<Def("test")>>, "test"),
      CallOf(<<Def("hello")>>, "test") }

\* the handlers start in the order of their numbers
Started(c) == pc[c] # "idle"

\* a request arrives while others are being handled: threaded=True gives
\* it a thread of its own
NewCall(c) ==
    /\ \A d \in Calls : d < c => Started(d)
    /\ \E p \in ConcurrentRequests : Receive(c, p)

(***************************************************************************)
(* The Bundler: _strip_decorators and the bundle of a decorated function.  *)
(***************************************************************************)
\* str.lower() on the values the switch is given here
Lower(v) == IF v = "TRUE" THEN "true" ELSE v

\* _remote_enabled(): os.getenv("USE_REMOTE_EXEC", "false").lower() in (...)
remote_enabled(v) ==
    Lower(IF v = "unset" THEN "false" ELSE v) \in {"true", "1", "yes"}

\* while lines and lines[0].lstrip().startswith("@"): lines.pop(0)
RECURSIVE strip_decorators(_)
strip_decorators(src) ==
    IF src # <<>> /\ Head(src).k = "deco"
    THEN strip_decorators(Tail(src))
    ELSE src

\* the decorator lines above a definition: one line as myscript.py writes
\* them, two decorators stacked above pair, and above multi a call of
\* remote_if_enabled written over two lines followed by remote_func
Decorators(f) ==
    CASE f = "hello" -> <<Line("deco", "remote_func")>>
      [] f = "pair"  -> <<Line("deco", "remote_if_enabled"),
                          Line("deco", "remote_func")>>
      [] f = "multi" -> <<Line("deco", "remote_if_enabled"),
                          Line("cont", "remote_url"),
                          Line("deco", "remote_func")>>
      [] OTHER       -> <<Line("deco", "remote_if_enabled")>>

\* inspect.getsource(obj): the decorator lines and the definition
getsource(f) == Decorators(f) \o <<Def(f)>>

\* the sources of the registered helpers, in the order of the list
RECURSIVE dep_sources(_)
dep_sources(exports) ==
    IF exports = <<>> THEN <<>>
    ELSE strip_decorators(getsource(Head(exports)))
            \o dep_sources(Tail(exports))

\* a bundle that puts the entry function ahead of the helpers
full_code_entry_first(f, exports) ==
    strip_decorators(getsource(f)) \o dep_sources(exports)

\* full_code = f"{bundle_deps_code}\n\n{func_source}"
full_code(f, exports) == dep_sources(exports) \o strip_decorators(getsource(f))

(***************************************************************************)
(* The Dispatcher: the wrapper of remote_if_enabled.                       *)
(***************************************************************************)
Wrapper(f, code, ps, pt, e) ==
    [func |-> f, code |-> code, print_stdout |-> ps, print_traceback |-> pt,
     decoEnabled |-> e]

NoWrapper == Wrapper("", <<>>, TRUE, TRUE, FALSE)

\* an error raised to the caller: its class and the two parts of its message
Err(cls, prefix, msg) == [cls |-> cls, prefix |-> prefix, msg |-> msg]
NoErr == Err("none", "", "")

Returned(val) == [kind |-> "return", val |-> val, exc |-> NoErr]
Raised(cls, prefix, msg) ==
    [kind |-> "raise", val |-> PyNone, exc |-> Err(cls, prefix, msg)]
NoOutcome == [kind |-> "none", val |-> PyNone, exc |-> NoErr]

Invocation(f, args, kw) == [f |-> f, args |-> args, kwargs |-> kw]

\* func(*args, **kwargs) run in the caller's process, where every helper of
\* the module is defined: the value it returns or the error it raises
RunLocal(f, args, kw) ==
    IF ~Binds(f, args, kw) THEN Raised("TypeError", "", "arguments")
    ELSE LET b == Body(f, args, kw)
             last == b[Len(b)]
         IN IF last.op = "return" THEN Returned(last.val)
            ELSE Raised(last.exc.cls, "", last.exc.msg)

\* line 116 with the keyword arguments left out
InvokeLocalNoKwargs(f, args, kw) == RunLocal(f, args, NoKwargs)

\* line 116: return func(*args, **kwargs)
InvokeLocal(f, args, kw) == RunLocal(f, args, kw)

\* line 115 with the switch read when the wrapper was built
WrapperRouteCached(envNow, enabledAtDecoration) ==
    IF enabledAtDecoration THEN "remote" ELSE "local"

\* line 115: if not _remote_enabled()
WrapperRoute(envNow, enabledAtDecoration) ==
    IF remote_enabled(envNow) THEN "remote" ELSE "local"

\* lines 119-124, as requests encodes it (json=payload)
\* a wrapper that bundles again at every call
PayloadRebuilt(w, args, kw) ==
    Request(AllFields, full_code(w.func, REMOTE_EXPORTS), w.func,
            dumps_args(args), dumps_kwargs(kw))

\* lines 119-124: full_code is the text decorator() built
Payload(w, args, kw) ==
    Request(AllFields, w.code, w.func, dumps_args(args), dumps_kwargs(kw))

\* f"HTTP {resp.status_code}"
HttpMsg(code) ==
    CASE code = 200 -> "HTTP 200"
      [] code = 201 -> "HTTP 201"
      [] code = 404 -> "HTTP 404"
      [] code = 500 -> "HTTP 500"
      [] code = 502 -> "HTTP 502"

\* data.get("status") == "ok"
StatusIsOk(b) == "status" \in b.fields /\ b.status = "ok"

\* lines 136-138 and 142-144
EchoStdout(w, b) ==
    IF w.print_stdout /\ "stdout" \in b.fields /\ b.stdout # <<>>
    THEN <<"[REMOTE STDOUT]">> \o b.stdout
    ELSE <<>>

\* lines 145-147
EchoTraceback(w, b) ==
    IF w.print_traceback /\ "traceback" \in b.fields /\ b.traceback # ""
    THEN <<"[REMOTE TRACEBACK]", b.traceback>>
    ELSE <<>>

\* a wrapper that always reports the transport status
ErrMsgStatusOnly(r) == HttpMsg(r.code)

\* line 149: data.get("error") or f"HTTP {resp.status_code}"
ErrMsg(r) ==
    IF "error" \in r.body.fields /\ r.body.error # ""
    THEN r.body.error
    ELSE HttpMsg(r.code)

\* line 135
TakesSuccessBranch(r) == r.code = 200 /\ StatusIsOk(r.body)

\* line 139: return data["result"]
SuccessOutcome(r) ==
    IF "result" \in r.body.fields THEN Returned(json_loads(r.body.result))
    ELSE Raised("KeyError", "", "result")

\* the failure branch of a wrapper that raises only when it showed the trace
FailureOutcomeSilent(w, r) ==
    IF w.print_traceback
    THEN Raised("RuntimeError", "Remote execution failed: ", ErrMsg(r))
    ELSE Returned(PyNone)

\* line 150
FailureOutcome(w, r) ==
    Raised("RuntimeError", "Remote execution failed: ", ErrMsg(r))

\* a wrapper that reports an undecodable body without quoting it
ProtocolErrorNoText(r) ==
    Raised("RuntimeError", "Remote returned non-JSON body: ", "")

\* lines 128-132: resp.json() raised, the error quotes resp.text
ProtocolError(r) ==
    Raised("RuntimeError", "Remote returned non-JSON body: ", r.text)

\* lines 128-150: how the wrapper ends once requests.post returned r
HandleOutcome(w, r) ==
    CASE r.form = "text" -> ProtocolError(r)
      [] r.form = "array" ->
            \* data.get on a decoded value that is not a dict
            Raised("AttributeError", "", "get")
      [] r.form = "object" ->
            IF TakesSuccessBranch(r) THEN SuccessOutcome(r)
            ELSE FailureOutcome(w, r)

HandleEcho(w, r) ==
    IF r.form # "object" THEN <<>>
    ELSE IF TakesSuccessBranch(r) THEN EchoStdout(w, r.body)
    ELSE EchoStdout(w, r.body) \o EchoTraceback(w, r.body)

ClientInit ==
    /\ environ = "unset"
    /\ REMOTE_EXPORTS = <<>>
    /\ wrapper = NoWrapper
    /\ cpc = "idle"
    /\ cargs = <<>>
    /\ ckwargs = NoKwargs
    /\ path = "none"
    /\ callEnv = "unset"
    /\ funcCalls = <<>>
    /\ posted = <<>>
    /\ wire = NoRequest
    /\ served = "none"
    /\ resp = NoResponse
    /\ outcome = NoOutcome
    /\ console = <<>>

callVars == <<cpc, cargs, ckwargs, path, callEnv, funcCalls, posted, wire,
              served, resp, outcome, console>>

\* the values the switch is set to
EnvValues == {"unset", "false", "true", "TRUE", "1"}

\* os.environ["USE_REMOTE_EXEC"] = v, or its removal
SetEnv(v) ==
    /\ v # environ
    /\ environ' = v
    /\ UNCHANGED <<REMOTE_EXPORTS, wrapper, callVars, execVars>>

Helpers == {"hello"}

\* lines 54-61: @remote_func
remote_func(h) ==
    /\ cpc = "idle"
    /\ REMOTE_EXPORTS' = Append(REMOTE_EXPORTS, h)
    /\ UNCHANGED <<environ, wrapper, callVars, execVars>>

\* lines 96-108 and 152: @remote_if_enabled(print_stdout=ps,
\* print_traceback=pt) applied to f
decorator(f, ps, pt) ==
    /\ cpc = "idle"
    /\ wrapper' = Wrapper(f, full_code(f, REMOTE_EXPORTS), ps, pt,
                          remote_enabled(environ))
    /\ UNCHANGED <<environ, REMOTE_EXPORTS, callVars, execVars>>

\* the calls the caller makes
ArgChoices(f) ==
    IF f = "echo"
    THEN { <<<<PyInt(1)>>, NoKwargs>>,
           <<<<PyTuple(<<1, 2>>)>>, NoKwargs>>,
           <<<<PySet(<<1>>)>>, NoKwargs>>,
           <<<<>>, [k \in {"x"} |-> PyList(<<1>>)]>>,
           <<<<>>, NoKwargs>> }
    ELSE { <<<<>>, NoKwargs>> }

\* lines 113-126: the call of the wrapper up to the answer of requests.post
WrapperCall(args, kw) ==
    /\ cpc = "idle"
    /\ wrapper # NoWrapper
    /\ cargs' = args
    /\ ckwargs' = kw
    /\ callEnv' = environ
    /\ path' = WrapperRoute(environ, wrapper.decoEnabled)
    /\ served' = "none"
    /\ resp' = NoResponse
    /\ console' = <<>>
    /\ IF path' = "local"
       THEN /\ funcCalls' = <<Invocation(wrapper.func, args, kw)>>
            /\ outcome' = InvokeLocal(wrapper.func, args, kw)
            /\ posted' = <<>>
            /\ wire' = NoRequest
            /\ cpc' = "done"
       ELSE IF ~ArgsSerializable(args, kw)
       THEN \* the encoder of requests raises before anything is sent
            /\ funcCalls' = <<>>
            /\ outcome' = Raised("TypeError", "", "not serializable")
            /\ posted' = <<>>
            /\ wire' = NoRequest
            /\ cpc' = "done"
       ELSE /\ funcCalls' = <<>>
            /\ outcome' = NoOutcome
            /\ posted' = <<Payload(wrapper, args, kw)>>
            /\ wire' = Payload(wrapper, args, kw)
            /\ cpc' = "waiting"
    /\ UNCHANGED <<environ, REMOTE_EXPORTS, wrapper, execVars>>

\* lines 128-150 for the response r
Finish(r) ==
    /\ resp' = r
    /\ outcome' = HandleOutcome(wrapper, r)
    /\ console' = HandleEcho(wrapper, r)
    /\ wire' = NoRequest
    /\ cpc' = "done"
    /\ UNCHANGED <<environ, REMOTE_EXPORTS, wrapper, cargs, ckwargs, path,
                   callEnv, funcCalls, posted>>

\* the Executor of this repository listens at the remote URL: the request
\* reaches exec_code
Accept ==
    /\ cpc = "waiting"
    /\ served = "none"
    /\ Receive(1, wire)
    /\ served' = "executor"
    /\ UNCHANGED <<environ, REMOTE_EXPORTS, wrapper, cpc, cargs, ckwargs,
                   path, callEnv, funcCalls, posted, wire, resp, outcome,
                   console>>

\* exec_code handles it, on the one thread of this request
Serving == served = "executor" /\ UNCHANGED clientVars

\* the thread of the request is over: the Executor is as it was
ThreadEnds ==
    /\ pc' = [pc EXCEPT ![1] = "idle"]
    /\ req' = [req EXCEPT ![1] = NoRequest]
    /\ stdout_buf' = [stdout_buf EXCEPT ![1] = <<>>]
    /\ env' = [env EXCEPT ![1] = {}]
    /\ old_target' = [old_target EXCEPT ![1] = 0]
    /\ exc' = [exc EXCEPT ![1] = NoExc]
    /\ result' = [result EXCEPT ![1] = PyNone]
    /\ response' = [response EXCEPT ![1] = NoResponse]
    /\ ip' = [ip EXCEPT ![1] = 1]
    /\ written' = [written EXCEPT ![1] = <<>>]
    /\ UNCHANGED sys_stdout

\* the response of exec_code arrives
Deliver ==
    /\ cpc = "waiting"
    /\ served = "executor"
    /\ pc[1] = "done"
    /\ Finish(response[1])
    /\ served' = served
    /\ ThreadEnds

\* exec_code was left by an error it does not catch: the connection closes
\* without a response and requests.post raises
Dropped ==
    /\ cpc = "waiting"
    /\ served = "executor"
    /\ pc[1] = "escaped"
    /\ outcome' = Raised("ConnectionError", "", "closed")
    /\ wire' = NoRequest
    /\ cpc' = "done"
    /\ UNCHANGED <<environ, REMOTE_EXPORTS, wrapper, cargs, ckwargs, path,
                   callEnv, funcCalls, posted, served, resp, console>>
    /\ ThreadEnds

\* what else may answer at the remote URL (a proxy, another service,
\* another version of the Executor)
OtherResponses ==
    { Response(200, "text", "<html>", {}, "", JsonNull, "", "", <<>>),
      Response(502, "text", "Bad Gateway", {}, "", JsonNull, "", "", <<>>),
      Response(200, "array", "", {}, "", JsonNull, "", "", <<>>),
      Response(201, "object", "", {"status", "result", "stdout"}, "ok",
               json_dumps(PyInt(1)), "", "", <<"a">>),
      Response(500, "object", "", {"status", "result", "traceback", "stdout"},
               "ok", json_dumps(PyInt(2)), "", "Traceback", <<>>),
      Response(200, "object", "", {"status", "error", "traceback", "stdout"},
               "error", JsonNull, "boom", "Traceback", <<"b">>),
      Response(500, "object", "", {"status", "traceback"},
               "error", JsonNull, "", "Traceback", <<>>),
      Response(200, "object", "", {"status", "result", "traceback", "stdout"},
               "ok", json_dumps(PyInt(1)), "", "Traceback", <<"a">>),
      Response(404, "object", "", {}, "", JsonNull, "", "", <<>>) }

OtherAnswers(r) ==
    /\ cpc = "waiting"
    /\ served = "none"
    /\ Finish(r)
    /\ served' = "other"
    /\ UNCHANGED execVars

\* a wrapper that takes a failed request for a call that returned nothing
TransportErrorSwallowed(cls) == Returned(PyNone)

\* line 126 is in no try block: what requests.post raises leaves the wrapper
TransportError(cls) == Raised(cls, "", "")

\* requests.post raises: no connection, or no answer within the timeout
TransportFails(cls) ==
    /\ cpc = "waiting"
    /\ served = "none"
    /\ outcome' = TransportError(cls)
    /\ wire' = NoRequest
    /\ cpc' = "done"
    /\ served' = cls
    /\ UNCHANGED <<environ, REMOTE_EXPORTS, wrapper, cargs, ckwargs, path,
                   callEnv, funcCalls, posted, resp, console, execVars>>

\* the wrapper call is over and the caller goes on
Return ==
    /\ cpc = "done"
    /\ cpc' = "idle"
    /\ cargs' = <<>>
    /\ ckwargs' = NoKwargs
    /\ path' = "none"
    /\ callEnv' = "unset"
    /\ funcCalls' = <<>>
    /\ posted' = <<>>
    /\ wire' = NoRequest
    /\ served' = "none"
    /\ resp' = NoResponse
    /\ outcome' = NoOutcome
    /\ console' = <<>>
    /\ UNCHANGED <<environ, REMOTE_EXPORTS, wrapper, execVars>>

NextClient ==
    \/ \E v \in EnvValues : SetEnv(v)
    \/ \E h \in Helpers : Len(REMOTE_EXPORTS) < MaxExports /\ remote_func(h)
    \/ \E f \in FuncNames, ps, pt \in BOOLEAN : decorator(f, ps, pt)
    \/ \E a \in ArgChoices(wrapper.func) : WrapperCall(a[1], a[2])
    \/ Accept
    \/ Enter(1) /\ Serving
    \/ ExecStep(1) /\ Serving
    \/ Lookup(1) /\ Serving
    \/ CallStep(1) /\ Serving
    \/ Exit(1) /\ Serving
    \/ Respond(1) /\ Serving
    \/ Except(1) /\ Serving
    \/ Deliver
    \/ Dropped
    \/ \E r \in OtherResponses : OtherAnswers(r)
    \/ \E cls \in {"Timeout", "ConnectionError"} : TransportFails(cls)
    \/ Return

Init == ExecInit /\ ClientInit

NextExec ==
    \/ \E c \in Calls : NewCall(c) /\ UNCHANGED clientVars
    \/ \E c \in Calls : Enter(c) /\ UNCHANGED clientVars
    \/ \E c \in Calls : ExecStep(c) /\ UNCHANGED clientVars
    \/ \E c \in Calls : Lookup(c) /\ UNCHANGED clientVars
    \/ \E c \in Calls : CallStep(c) /\ UNCHANGED clientVars
    \/ \E c \in Calls : Exit(c) /\ UNCHANGED clientVars
    \/ \E c \in Calls : Respond(c) /\ UNCHANGED clientVars
    \/ \E c \in Calls : Except(c) /\ UNCHANGED clientVars

SpecExec == Init /\ [][NextExec]_vars

SpecClient == Init /\ [][NextClient]_vars

\* the objects a script registers with @remote_func
BundleHelpers == {"hello", "pair", "multi"}

\* the import of a script: its decorators run, no call is made
NextBundle ==
    \/ \E h \in BundleHelpers :
          Len(REMOTE_EXPORTS) < MaxBundle /\ remote_func(h)
    \/ \E f \in FuncNames, ps, pt \in BOOLEAN : decorator(f, ps, pt)

SpecBundle == Init /\ [][NextBundle]_vars

\* one request at a time: a handler starts when no other is running
InFlight(c) == pc[c] \notin {"idle", "done", "escaped"}

NewCallSeq(c) ==
    /\ \A d \in Calls : ~InFlight(d)
    /\ \A d \in Calls : d < c => Started(d)
    /\ \E p \in ExecRequests : Receive(c, p)

NextSeq ==
    \/ \E c \in Calls : NewCallSeq(c) /\ UNCHANGED clientVars
    \/ \E c \in Calls : Enter(c) /\ UNCHANGED clientVars
    \/ \E c \in Calls : ExecStep(c) /\ UNCHANGED clientVars
    \/ \E c \in Calls : Lookup(c) /\ UNCHANGED clientVars
    \/ \E c \in Calls : CallStep(c) /\ UNCHANGED clientVars
    \/ \E c \in Calls : Exit(c) /\ UNCHANGED clientVars
    \/ \E c \in Calls : Respond(c) /\ UNCHANGED clientVars
    \/ \E c \in Calls : Except(c) /\ UNCHANGED clientVars

SpecSeq == Init /\ [][NextSeq]_vars

(***************************************************************************)
(* Properties of the Executor.                                             *)
(***************************************************************************)
Answered(c) == pc[c] = "done"

\* C1: the stdout text returned for a call is exactly the text that call's
\* own code wrote, in every interleaving of concurrent calls.
C1_OwnOutputOnly ==
    \A c \in Calls : Answered(c) => response[c].body.stdout = written[c]

\* C2: once no /exec call is in flight, the process-wide output target is
\* the one that was in place before the calls started.
C2_TargetRestored ==
    (\A c \in Calls : ~InFlight(c)) => sys_stdout = 0

\* the names the bundle of call c defines
OwnDefs(c) ==
    {req[c].code[i].n : i \in {j \in DOMAIN req[c].code : req[c].code[j].k = "def"}}

\* the helpers the entry point of call c calls
UsedHelpers(c) ==
    LET b == Body(req[c].func_name, PayloadArgs(req[c]), PayloadKwargs(req[c]))
    IN {b[i].tok : i \in {j \in DOMAIN b : b[j].op = "use"}}

\* C3: every call evaluates its bundle in an environment of its own that
\* starts empty; the entry-point lookup and the code of a call see only the
\* names its own bundle defined, never those of another call, concurrent or
\* earlier.
C3_EnvIsolated ==
    \A c \in Calls :
        /\ pc[c] = "enter" => env[c] = {}
        /\ env[c] \subseteq OwnDefs(c)
        /\ pc[c] = "call" => req[c].func_name \in OwnDefs(c)
        /\ (Answered(c) /\ response[c].body.status = "ok")
              => UsedHelpers(c) \subseteq OwnDefs(c)

\* a call failed on a name that another call's bundle had defined
C3_Witness ==
    \E c, d \in Calls :
        /\ c # d
        /\ Answered(c)
        /\ exc[c].cls \in {"NameError", "KeyError"}
        /\ exc[c].msg \in env[d]
        /\ exc[c].msg \notin OwnDefs(c)

\* the failure shape: status "error", error, traceback, stdout, and 500
IsFailure(r) ==
    /\ r.code = 500
    /\ r.body.status = "error"
    /\ r.body.fields = {"status", "error", "traceback", "stdout"}

IsSuccess(r) ==
    /\ r.code = 200
    /\ r.body.status = "ok"
    /\ r.body.fields = {"status", "result", "stdout"}

\* C4: every failure of bundle evaluation, entry-point lookup or invocation
\* ends the call with a Failure response and status 500, none leaves the
\* handler unhandled, and a Success response needs all three steps done.
C4_EveryFailureAnswered ==
    \A c \in Calls :
        /\ pc[c] # "escaped"
        /\ (Answered(c) /\ exc[c] # NoExc) => IsFailure(response[c])
        /\ (Answered(c) /\ exc[c] = NoExc) => IsSuccess(response[c])

\* C5: with one call at a time, the stdout of a Failure response is exactly
\* the output the call's code wrote before the failure.
C5_FailureKeepsOutput ==
    \A c \in Calls :
        (Answered(c) /\ response[c].body.status = "error")
            => response[c].body.stdout = written[c]

\* a call failed after it had printed, and another after it had not
C5_Witness ==
    \E c \in Calls :
        /\ Answered(c)
        /\ response[c].body.status = "error"
        /\ Len(written[c]) > 0
        /\ exc[c].cls = "ValueError"

(***************************************************************************)
(* Properties of the Dispatcher.                                           *)
(***************************************************************************)
\* a wrapper call on the remote path has ended on a body that decoded to an
\* object
DecodedObject == cpc = "done" /\ path = "remote" /\ resp.form = "object"

\* C6: on the remote path the body's status alone decides: whenever the body
\* decodes and its status is "ok" the wrapper returns the body's result, for
\* every transport status code.
C6_StatusFieldDecides ==
    (DecodedObject /\ StatusIsOk(resp.body))
        => outcome = Returned(json_loads(resp.body.result))

\* C7: on the remote path, whenever the decoded body's status is not "ok"
\* the wrapper call ends by raising the remote-execution error and returns
\* no value, whatever the two echo flags are.
C7_FailureAlwaysRaises ==
    (DecodedObject /\ ~StatusIsOk(resp.body))
        => /\ outcome.kind = "raise"
           /\ outcome.exc.cls = "RuntimeError"
           /\ outcome.exc.prefix = "Remote execution failed: "

\* a failure body was handled with both echo flags off
C7_Witness ==
    /\ DecodedObject
    /\ ~StatusIsOk(resp.body)
    /\ ~wrapper.print_stdout
    /\ ~wrapper.print_traceback
    /\ console = <<>>
    /\ outcome.kind = "raise"

\* C8: the switch is read at every call: a call takes the remote path iff
\* the switch is on at the moment of the call and the local path iff it is
\* off, whatever it was when the function was decorated or at earlier calls.
C8_SwitchReadAtCall ==
    cpc # "idle" =>
        /\ path = "remote" <=> remote_enabled(callEnv)
        /\ path = "local" <=> ~remote_enabled(callEnv)

\* a call went local through a wrapper built while the switch was on
C8_Witness ==
    /\ cpc = "done"
    /\ path = "local"
    /\ wrapper.decoEnabled
    /\ ~remote_enabled(callEnv)

\* C9: with remote execution disabled a wrapper call is the call of the
\* undecorated function: func is invoked once with the same arguments, its
\* value or its error comes back unchanged, no request is submitted and the
\* wrapper prints nothing.
C9_LocalPathTransparent ==
    (cpc = "done" /\ ~remote_enabled(callEnv))
        => /\ funcCalls = <<Invocation(wrapper.func, cargs, ckwargs)>>
           /\ outcome = RunLocal(wrapper.func, cargs, ckwargs)
           /\ posted = <<>>
           /\ resp = NoResponse
           /\ console = <<>>

\* a local call with a keyword argument returned its value
C9_Witness ==
    /\ cpc = "done"
    /\ ~remote_enabled(callEnv)
    /\ DOMAIN ckwargs = {"x"}
    /\ outcome = Returned(PyList(<<1>>))
    /\ Len(funcCalls) = 1

\* C10: when the entry point runs successfully, the value the remote path
\* returns to the caller equals the value the local path returns for the
\* same call.
C10_RemoteEqualsLocal ==
    (DecodedObject /\ served = "executor" /\ IsSuccess(resp))
        => outcome = RunLocal(wrapper.func, cargs, ckwargs)

\* C11: a remote-path call submits one request and never retries: when that
\* request times out or fails in transport before a body is received, the
\* call ends in that error (a timeout error on timeout), returns no result and
\* echoes nothing.
C11_OneAttemptNoRetry ==
    /\ Len(posted) <= 1
    /\ (cpc # "idle" /\ path = "remote" /\ ArgsSerializable(cargs, ckwargs))
          => Len(posted) = 1
    /\ (cpc = "done" /\ served \in {"Timeout", "ConnectionError"})
          => /\ outcome.kind = "raise"
             /\ outcome.exc.cls = served
             /\ resp = NoResponse
             /\ console = <<>>

\* a request timed out under a wrapper that echoes
C11_Witness ==
    /\ cpc = "done"
    /\ served = "Timeout"
    /\ wrapper.print_stdout
    /\ Len(posted) = 1
    /\ outcome.exc.cls = "Timeout"

\* C12: when the response body cannot be decoded as structured data the
\* wrapper fails with a protocol error that carries the raw body text, whatever
\* the transport status code, returning no value and echoing nothing first.
C12_UndecodableBodyRaises ==
    (cpc = "done" /\ path = "remote" /\ resp.form = "text")
        => /\ outcome.kind = "raise"
           /\ outcome.exc.cls = "RuntimeError"
           /\ outcome.exc.prefix = "Remote returned non-JSON body: "
           /\ outcome.exc.msg = resp.text
           /\ console = <<>>

\* an undecodable body under a non-200 status, both echo flags on
C12_Witness ==
    /\ cpc = "done"
    /\ path = "remote"
    /\ resp.form = "text"
    /\ resp.code = 502
    /\ resp.text = "Bad Gateway"
    /\ wrapper.print_stdout
    /\ wrapper.print_traceback
    /\ outcome.kind = "raise"

\* the names a bundle defines, in the order of its definition lines
DefNames(code) ==
    LET defs == SelectSeq(code, LAMBDA l : l.k = "def")
    IN  [i \in DOMAIN defs |-> defs[i].n]

\* C13: the bundle holds no reference to the dispatch mechanism: whatever
\* decorator lines stand above an entry function or a helper, one or several,
\* on one source line or more, every fragment starts at its definition line
\* and no line of the bundle belongs to a decorator.
C13_NoDispatchMarkerInBundle ==
    wrapper # NoWrapper
        => \A i \in DOMAIN wrapper.code : wrapper.code[i].k = "def"

\* C14: a bundle is the source of every helper of the registration list as it
\* stands when the bundle is built, once per registration and in registration
\* order, with the entry function's source last; registering a helper appends
\* one entry and leaves the earlier entries as they were.
C14_BundleInRegistrationOrder ==
    [][ /\ wrapper' # wrapper
            => DefNames(wrapper'.code) = REMOTE_EXPORTS \o <<wrapper'.func>>
        /\ REMOTE_EXPORTS' # REMOTE_EXPORTS
            => /\ Len(REMOTE_EXPORTS') = Len(REMOTE_EXPORTS) + 1
               /\ SubSeq(REMOTE_EXPORTS', 1, Len(REMOTE_EXPORTS))
                      = REMOTE_EXPORTS ]_vars

\* a bundle built over two different helpers, for a third function
C14_Witness ==
    /\ wrapper # NoWrapper
    /\ Len(REMOTE_EXPORTS) = 2
    /\ REMOTE_EXPORTS[1] # REMOTE_EXPORTS[2]
    /\ wrapper.func \notin {REMOTE_EXPORTS[1], REMOTE_EXPORTS[2]}
    /\ DefNames(wrapper.code) = REMOTE_EXPORTS \o <<wrapper.func>>

\* C15: the Executor invoked twice in sequence with the same bundle and the
\* same call descriptor gives the same status both times, with equal results
\* on success and equal error messages on failure; what the first call bound
\* does not reach the second.
C15_SameRequestSameOutcome ==
    \A c, d \in Calls :
        (Answered(c) /\ Answered(d) /\ req[c] = req[d])
            => /\ response[c].code = response[d].code
               /\ response[c].body.status = response[d].body.status
               /\ response[c].body.result = response[d].body.result
               /\ response[c].body.error = response[d].body.error

\* the same request answered twice, by an entry point that rebinds a global
C15_Witness ==
    /\ Answered(1)
    /\ Answered(2)
    /\ req[1] = req[2]
    /\ req[1].func_name = "bump"
    /\ IsSuccess(response[2])
    /\ response[2].body.result = json_dumps(PyInt(1))

\* the bundle of request p runs to its end: it compiles and its top-level
\* lines only define and print
BundleEvaluates(p) ==
    /\ {"code", "func_name"} \subseteq p.present
    /\ \A i \in DOMAIN p.code : p.code[i].k \in {"def", "print"}

\* what the top-level lines of a bundle print
TopLevelPrints(code) ==
    LET prints == SelectSeq(code, LAMBDA l : l.k = "print")
    IN  [i \in DOMAIN prints |-> prints[i].n]

C17_BundleFixedAtConstruction ==
    [][ /\ (posted' # posted /\ posted' # <<>>)
            => /\ posted'[1].code = wrapper.code
               /\ wrapper' = wrapper
        /\ REMOTE_EXPORTS' # REMOTE_EXPORTS => wrapper' = wrapper
        /\ wrapper' # wrapper
            => \A i \in DOMAIN REMOTE_EXPORTS :
                  \E j \in DOMAIN wrapper'.code :
                      wrapper'.code[j] = Def(REMOTE_EXPORTS[i]) ]_vars

\* a request sent by a wrapper made before the helper it calls was registered
C17_Witness ==
    /\ cpc = "waiting"
    /\ Len(posted) = 1
    /\ wrapper.func = "test"
    /\ REMOTE_EXPORTS = <<"hello">>
    /\ posted[1].code = <<Def("test")>>

\* the stdout text of a decoded body, empty when the body has none
BodyStdout(b) == IF "stdout" \in b.fields THEN b.stdout ELSE <<>>

\* the traceback text of a decoded body, empty when the body has none
BodyTraceback(b) == IF "traceback" \in b.fields THEN b.traceback ELSE ""

\* C18: on a failure response the wrapper echoes the remote stdout exactly
\* when print_stdout is on and the stdout is not empty, and the remote
\* traceback exactly when print_traceback is on and the traceback is not
\* empty, stdout first, both before it raises; on a success response, one
\* whose body status is "ok", only print_stdout matters and the traceback is
\* never echoed.
C18_EchoFlagsIndependent ==
    DecodedObject
        => LET b == resp.body
               out == IF wrapper.print_stdout /\ BodyStdout(b) # <<>>
                      THEN <<"[REMOTE STDOUT]">> \o BodyStdout(b)
                      ELSE <<>>
               trace == IF wrapper.print_traceback /\ BodyTraceback(b) # ""
                        THEN <<"[REMOTE TRACEBACK]", BodyTraceback(b)>>
                        ELSE <<>>
           IN  IF StatusIsOk(b)
               THEN console = out
               ELSE console = out \o trace /\ outcome.kind = "raise"

\* the error text of a decoded body, empty when the body has none
BodyError(b) == IF "error" \in b.fields THEN b.error ELSE ""

\* C19: the error raised for a remote failure carries the remote error text
\* whenever the body has one, and the message made from the transport status
\* code only when it has none; an error text that is the empty string counts
\* as none.
C19_ErrorTextElseStatus ==
    (DecodedObject /\ ~StatusIsOk(resp.body))
        => /\ outcome.kind = "raise"
           /\ outcome.exc.prefix = "Remote execution failed: "
           /\ BodyError(resp.body) # ""
                 => outcome.exc.msg = BodyError(resp.body)
           /\ BodyError(resp.body) = ""
                 => outcome.exc.msg = HttpMsg(resp.code)

\* the Executor reports an exception raised without a message
C19_Witness ==
    /\ DecodedObject
    /\ served = "executor"
    /\ wrapper.func = "mute"
    /\ "error" \in resp.body.fields
    /\ resp.body.error = ""
    /\ outcome.exc.msg = "HTTP 500"

\* C20: every request ends with one response, whose transport status is 200
\* exactly when its body status is "ok"; a request without the code or the
\* func_name field, and a call whose entry point returned a result that cannot
\* be encoded, end with a Failure response (status "error", 500) that carries
\* all the output captured during the call.
C20_OneResponsePerRequest ==
    \A c \in Calls :
        (Started(c) /\ ~InFlight(c))
            => /\ Answered(c)
               /\ response[c] # NoResponse
               /\ response[c].code = 200 <=> response[c].body.status = "ok"
               /\ (MissingField(req[c]) # NoExc \/ ~JsonSerializable(result[c]))
                     => /\ IsFailure(response[c])
                        /\ response[c].body.stdout = written[c]

====
